---- MODULE Spec2Model ----
(***************************************************************************)
(* Subclause generation over a dependency parse                            *)
(* (subclause_generator/subclauses.py).                                    *)
(*                                                                         *)
(* A surface string is a sequence of one-character strings, so that the    *)
(* character-level steps of the code (sent[-1], the regular expressions,   *)
(* the substring test `in ".?!;:"`, join and split) are computed and not   *)
(* assumed.  A token position is 0-based as in spaCy; position i is        *)
(* doc[i + 1].                                                             *)
(***************************************************************************)
EXTENDS Integers, Sequences, FiniteSets, TLC

VARIABLES
    doc,            \* the parser's result for the sentence: a sequence of tokens
    pc,             \* position in convert_to_subclauses / get_all_subclauses_of_sent
    str_sentence,   \* line 136/139: the tokens joined by blanks
    mark,           \* line 137: final_punc_mark(str_sentence)
    final_punc,     \* lines 233-235
    all_deps,       \* line 237: one closure per token, in document order
    subclauses,     \* lines 236-243: token -> largest closure containing it
    spans,          \* lines 246-255: final_subclauses_tmp
    upd,            \* lines 257-265: final_subclauses_upd
    result,         \* lines 142-153: subclauses_with_puncs
    error,          \* the exception raised, "" when none
    done,           \* resolver, any order: the roots whose closure was processed
    tin, tL, ts, tpc, tpasses, tfirst   \* boundary trimming, stepwise

vars == <<doc, pc, str_sentence, mark, final_punc, all_deps, subclauses, spans,
          upd, result, error, done, tin, tL, ts, tpc, tpasses, tfirst>>

pipeVars == <<doc, pc, str_sentence, mark, final_punc, all_deps, subclauses,
              spans, upd, result, error>>
trimVars == <<tin, tL, ts, tpc, tpasses, tfirst>>

(***************************************************************************)
(* Bounds of the model.                                                    *)
(***************************************************************************)
MaxTokens == 3      \* tokens in a sentence
MaxTrimLen == 4     \* tokens in a list handed to boundary trimming alone

(***************************************************************************)
(* Surface strings.                                                        *)
(***************************************************************************)
s_it == <<"i", "t">>
s_was == <<"w", "a", "s">>
s_and == <<"a", "n", "d">>
s_dot == <<".">>
s_bang == <<"!">>
s_quote == <<"'">>

\* Sequence helpers.
Last(s) == s[Len(s)]
Front(s) == SubSeq(s, 1, Len(s) - 1)
Range(s) == {s[k] : k \in 1..Len(s)}

\* " ".join(list)
RECURSIVE Join(_)
Join(toks) ==
    IF toks = <<>> THEN <<>>
    ELSE IF Len(toks) = 1 THEN toks[1]
    ELSE toks[1] \o <<" ">> \o Join(Tail(toks))

\* str.strip() for the blank character
RECURSIVE Strip(_)
Strip(s) ==
    IF s = <<>> THEN s
    ELSE IF Head(s) = " " THEN Strip(Tail(s))
    ELSE IF Last(s) = " " THEN Strip(Front(s))
    ELSE s

\* str.split(): the maximal runs of non-blank characters
RECURSIVE SplitFrom(_, _, _)
SplitFrom(s, cur, acc) ==
    IF s = <<>> THEN (IF cur = <<>> THEN acc ELSE Append(acc, cur))
    ELSE IF Head(s) = " "
         THEN SplitFrom(Tail(s), <<>>, IF cur = <<>> THEN acc ELSE Append(acc, cur))
         ELSE SplitFrom(Tail(s), Append(cur, Head(s)), acc)
Split(s) == SplitFrom(s, <<>>, <<>>)

\* re.sub(r"[ ]+", r" ", s)
RECURSIVE SqueezeBlanks(_)
SqueezeBlanks(s) ==
    IF Len(s) <= 1 THEN s
    ELSE IF s[1] = " " /\ s[2] = " " THEN SqueezeBlanks(Tail(s))
    ELSE <<s[1]>> \o SqueezeBlanks(Tail(s))

\* x in y for Python strings: x is a contiguous part of y
IsSubstring(x, y) ==
    \E k \in 0..(Len(y) - Len(x)) : SubSeq(y, k + 1, k + Len(x)) = x

(***************************************************************************)
(* The parse: spaCy tokens.  head is the position of the syntactic head;   *)
(* the root of a parse is its own head and carries the label ROOT.         *)
(***************************************************************************)
\* str.lower() on the labels the parser hands out
Lower(x) ==
    CASE x = "VBD" -> "vbd"
      [] x = "PRP" -> "prp"
      [] x = "CC" -> "cc"
      [] x = "ROOT" -> "root"
      [] OTHER -> x

Lexicon ==
    { [text |-> s_it, tag |-> "PRP", dep |-> "conj"],
      [text |-> s_was, tag |-> "VBD", dep |-> "conj"],
      [text |-> s_and, tag |-> "CC", dep |-> "cc"],
      [text |-> s_dot, tag |-> ".", dep |-> "punct"],
      [text |-> s_bang, tag |-> ".", dep |-> "punct"],
      [text |-> s_quote, tag |-> "''", dep |-> "punct"] }

Positions == 0..(Len(doc) - 1)

\* Token.children: the direct dependents
children(d, i) == {j \in 0..(Len(d) - 1) : j # i /\ d[j + 1].head = i}

RECURSIVE Climb(_, _, _)
Climb(heads, i, fuel) ==
    IF heads[i] = i THEN TRUE
    ELSE IF fuel = 0 THEN FALSE
    ELSE Climb(heads, heads[i], fuel - 1)

\* every token reaches a root by following heads: a forest of parse trees
Acyclic(heads, n) == \A i \in 0..(n - 1) : Climb(heads, i, n)

Forests(n) == {h \in [0..(n - 1) -> 0..(n - 1)] : Acyclic(h, n)}

\* the parse of n tokens with the given words and heads
MakeDoc(n, lex, heads) ==
    [k \in 1..n |->
        [text |-> lex[k].text, tag |-> lex[k].tag,
         dep |-> IF heads[k - 1] = k - 1 THEN "ROOT" ELSE lex[k].dep,
         head |-> heads[k - 1]]]

(***************************************************************************)
(* SubclauseGenerator                                                      *)
(***************************************************************************)
subclause_marker_relationships == {"conj", "ccomp"}

conj_and_punc_list(lang) ==
    IF lang = "tr"
    THEN { <<"v", "e">>, <<"v", "e", "y", "a">>, <<"a", "m", "a">>,
           <<"b", "u", "n", "a", " ", "r", "a", "g", "m", "e", "n">>,
           <<"a", "y", "r", "i", "c", "a">>,
           <<"?">>, <<"!">>, <<".">>, <<",">>, <<":">>, <<";">> }
    ELSE { <<"a", "n", "d">>, <<"o", "r">>, <<"b", "u", "t">>,
           <<"h", "o", "w", "e", "v", "e", "r">>, <<"a", "l", "s", "o">>,
           <<"?">>, <<"!">>, <<".">>, <<",">>, <<":">>, <<";">> }

Digits == <<"0", "1", "2", "3", "4", "5", "6", "7", "8", "9">>
IsDigit(c) == c \in Range(Digits)
DigitValue(c) == CHOOSE v \in 0..9 : Digits[v + 1] = c

\* str(i) for a token position
RECURSIVE Str(_)
Str(i) == IF i < 10 THEN <<Digits[i + 1]>> ELSE Str(i \div 10) \o <<Digits[(i % 10) + 1]>>

\* int(s) for a string of decimal digits
RECURSIVE Int_(_, _)
Int_(s, acc) == IF s = <<>> THEN acc ELSE Int_(Tail(s), 10 * acc + DigitValue(Head(s)))

\* tok.text + "-" + str(tok.i): the surface string tagged with its position
Tagged(d, i) == d[i + 1].text \o <<"-">> \o Str(i)

\* token.rindex("-")
RIndexHyphen(t) == CHOOSE k \in 1..Len(t) :
                       /\ t[k] = "-"
                       /\ \A m \in (k + 1)..Len(t) : t[m] # "-"

\* lines 250 and 255: int(token[token.rindex("-") + 1:])
IndexOf(t) == Int_(SubSeq(t, RIndexHyphen(t) + 1, Len(t)), 0)

\* line 199
IsSubclauseMarker(kid) ==
    /\ Lower(kid.dep) \in subclause_marker_relationships
    /\ Lower(kid.tag) \in {"verb", "vbd", "vbz", "vbg"}

\* Variant: the marked child is added like any other and only its subtree is skipped.
RECURSIVE get_children_recurs_keepkid(_, _, _)
get_children_recurs_keepkid(d, tok, lev) ==
    (IF lev = 0 THEN {Tagged(d, tok)} ELSE {})
    \cup UNION { IF IsSubclauseMarker(d[kid + 1]) THEN {Tagged(d, kid)}
                 ELSE {Tagged(d, kid)} \cup get_children_recurs_keepkid(d, kid, lev + 1) :
                 kid \in children(d, tok) }

\* Variant: the marked child is left out but the walk still descends below it.
RECURSIVE get_children_recurs_descend(_, _, _)
get_children_recurs_descend(d, tok, lev) ==
    (IF lev = 0 THEN {Tagged(d, tok)} ELSE {})
    \cup UNION { (IF IsSubclauseMarker(d[kid + 1]) THEN {} ELSE {Tagged(d, kid)})
                 \cup get_children_recurs_descend(d, kid, lev + 1) :
                 kid \in children(d, tok) }

RECURSIVE get_children_recurs(_, _, _)
get_children_recurs(d, tok, lev) ==
    (IF lev = 0 THEN {Tagged(d, tok)} ELSE {})
    \cup UNION { IF IsSubclauseMarker(d[kid + 1]) THEN {}
                 ELSE {Tagged(d, kid)} \cup get_children_recurs(d, kid, lev + 1) :
                 kid \in children(d, tok) }

get_all_deps(d) == [k \in 1..Len(d) |-> get_children_recurs(d, k - 1, 0)]

\* lines 155-167: re.search(r"([.?!])[\"\']*$", s), "." when nothing matches
RECURSIVE DropTrailing(_, _)
DropTrailing(s, chars) ==
    IF s # <<>> /\ Last(s) \in chars THEN DropTrailing(Front(s), chars) ELSE s

\* Variant: blanks before the end of the text are skipped like quotes.
final_punc_mark_blanks(s) ==
    LET body == DropTrailing(s, {"\"", "'", " "})
    IN IF body # <<>> /\ Last(body) \in {".", "?", "!"} THEN <<Last(body)>> ELSE s_dot

final_punc_mark(s) ==
    LET body == DropTrailing(s, {"\"", "'"})
    IN IF body # <<>> /\ Last(body) \in {".", "?", "!"} THEN <<Last(body)>> ELSE s_dot

\* lines 233-235: sent[-1] when re.match(r"[?.!]+$", sent[-1]), "." otherwise
sentence_final_punc(sent) ==
    IF Last(sent) \in {"?", ".", "!"} THEN <<Last(sent)>> ELSE s_dot

\* line 291: re.sub(r"[,;:.?!\"]+$", r"", s)
remove_trailing_puncs(s) == DropTrailing(s, {",", ";", ":", ".", "?", "!", "\""})

\* line 279, one token: re.sub(r"(.*)-[0-9]+", r"\1", tok).  The greedy (.*) ends at
\* the last hyphen that a digit follows; the hyphen and the digits after it go.
RECURSIVE SkipDigits(_)
SkipDigits(s) == IF s # <<>> /\ IsDigit(Head(s)) THEN SkipDigits(Tail(s)) ELSE s

remove_ind_tok(t) ==
    LET cuts == {k \in 1..(Len(t) - 1) : t[k] = "-" /\ IsDigit(t[k + 1])}
    IN IF cuts = {} THEN t
       ELSE LET k == CHOOSE c \in cuts : \A o \in cuts : o <= c
            IN SubSeq(t, 1, k - 1) \o SkipDigits(SubSeq(t, k + 1, Len(t)))

remove_ind(s) == [k \in 1..Len(s) |-> remove_ind_tok(s[k])]

(***************************************************************************)
(* Boundary trimming, lines 293-321.  A value is [s, err]: the list, and   *)
(* whether an index was read outside it.                                   *)
(***************************************************************************)
\* lines 312-318: one pass of the loop body
TrimPass(s, L) ==
    IF s = <<>> THEN [s |-> s, n |-> 0, err |-> TRUE]
    ELSE LET a == IF s[1] \in L THEN Tail(s) ELSE s
             na == IF s[1] \in L THEN 1 ELSE 0
         IN IF a = <<>> THEN [s |-> a, n |-> na, err |-> TRUE]
            ELSE IF Last(a) \in L
                 THEN [s |-> Front(a), n |-> na + 2, err |-> FALSE]
                 ELSE [s |-> a, n |-> na, err |-> FALSE]

\* Variant: a single pass, no loop.
TrimBreaks_once(p) == TRUE

\* Variant: the loop ends only when a pass removes nothing.
TrimBreaks_nolen(p) == p.n = 0

\* line 319: the loop ends
TrimBreaks(p) == p.n = 0 \/ Len(p.s) <= 1

RECURSIVE TrimLoop(_, _)
TrimLoop(s, L) ==
    LET p == TrimPass(s, L)
    IN IF p.err THEN [s |-> p.s, err |-> TRUE]
       ELSE IF TrimBreaks(p) THEN [s |-> p.s, err |-> FALSE]
       ELSE TrimLoop(p.s, L)

remove_trailing_conjs_and_puncs(s, L) ==
    IF Len(s) <= 1 THEN [s |-> s, err |-> FALSE] ELSE TrimLoop(s, L)

(***************************************************************************)
(* Span resolution and assembly, lines 232-266.                            *)
(***************************************************************************)
\* Variant: the closure processed last replaces the entry, whatever its size.
UpdateWith_lastwins(sub, dep) ==
    [tok \in DOMAIN sub |-> IF tok \in dep THEN dep ELSE sub[tok]]

\* lines 240-243 for one closure: the larger closure replaces the entry
UpdateWith(sub, dep) ==
    [tok \in DOMAIN sub |->
        IF tok \in dep /\ Cardinality(sub[tok]) < Cardinality(dep) THEN dep ELSE sub[tok]]

\* line 236: defaultdict(set), read at the tokens of the sentence
EmptySubclauses(d) == [tok \in {Tagged(d, i) : i \in 0..(Len(d) - 1)} |-> {}]

\* lines 239-243 in document order
RECURSIVE ResolveFrom(_, _, _)
ResolveFrom(deps, k, sub) ==
    IF k > Len(deps) THEN sub ELSE ResolveFrom(deps, k + 1, UpdateWith(sub, deps[k]))

\* lines 238-241
AllToks(deps) == UNION Range(deps)

\* line 244: the distinct values of the mapping
final_subclauses(sub, toks) == {sub[tok] : tok \in toks}

\* the orders list.sort(key=...) can leave a collection in: keys never decrease.
\* key maps each element to its sort key.
SortedOrders(S, key) ==
    { f \in [1..Cardinality(S) -> S] :
        /\ \A a, b \in 1..Cardinality(S) : a # b => f[a] # f[b]
        /\ \A a \in 1..(Cardinality(S) - 1) : key[f[a]] <= key[f[a + 1]] }

\* Variant: the tokens of a span are left in the order the set yields them.
SortTokens_unsorted(span) ==
    { f \in [1..Cardinality(span) -> span] :
        \A a, b \in 1..Cardinality(span) : a # b => f[a] # f[b] }

\* lines 248-251: the tokens of a span by position
SortTokens(span) == SortedOrders(span, [t \in span |-> IndexOf(t)])

\* line 255: the key of a span is the position of its first token
SpanKey(span) == IndexOf(span[1])

\* lines 262-263
RestoreTerminator(subcl, punc) ==
    IF ~IsSubstring(Last(subcl), <<".", "?", "!", ";", ":">>)
    THEN Append(subcl, punc) ELSE subcl

\* lines 260-264 for one span
AssembleSpan(span, punc, L) ==
    remove_trailing_conjs_and_puncs(RestoreTerminator(remove_ind(span), punc), L)

\* lines 146-151 for one subclause
FinishSubclause(sub, m) ==
    Split(Strip(remove_trailing_puncs(Join(sub)) \o <<" ">> \o m))

(***************************************************************************)
(* convert_to_subclauses, lines 118-153, with get_all_subclauses_of_sent   *)
(* (lines 222-266) in line.  pc = "assembled" is the return of             *)
(* get_all_subclauses_of_sent with the value upd.                          *)
(***************************************************************************)
NoTrim == /\ tin = <<>> /\ tL = {} /\ ts = <<>>
          /\ tpc = "idle" /\ tpasses = 0 /\ tfirst = <<>>

Init ==
    /\ \E n \in 0..MaxTokens : \E lex \in [1..n -> Lexicon] : \E heads \in Forests(n) :
           doc = MakeDoc(n, lex, heads)
    /\ pc = "call"
    /\ str_sentence = <<>> /\ mark = <<>> /\ final_punc = <<>>
    /\ all_deps = <<>> /\ subclauses = <<>> /\ spans = <<>>
    /\ upd = <<>> /\ result = <<>> /\ error = ""
    /\ done = {}
    /\ NoTrim

\* lines 134-139
Tokenize ==
    /\ pc = "call"
    /\ LET str_sentence_arr == [k \in 1..Len(doc) |-> doc[k].text]
       IN /\ mark' = final_punc_mark(Join(str_sentence_arr))
          /\ str_sentence' = SqueezeBlanks(Join(str_sentence_arr))
    /\ pc' = "tokenized"
    /\ UNCHANGED <<doc, final_punc, all_deps, subclauses, spans, upd, result, error,
                   done, trimVars>>

\* lines 232-243
Resolve ==
    /\ pc = "tokenized"
    /\ LET sent == Strip(str_sentence)
       IN IF sent = <<>>
          THEN \* line 233: sent[-1] of the empty string
               /\ error' = "IndexError"
               /\ pc' = "raised"
               /\ UNCHANGED <<final_punc, all_deps, subclauses>>
          ELSE /\ final_punc' = sentence_final_punc(sent)
               /\ all_deps' = get_all_deps(doc)
               /\ subclauses' = ResolveFrom(get_all_deps(doc), 1, EmptySubclauses(doc))
               /\ pc' = "resolved"
               /\ UNCHANGED error
    /\ UNCHANGED <<doc, str_sentence, mark, spans, upd, result, done, trimVars>>

\* lines 244-255
Order ==
    /\ pc = "resolved"
    /\ LET final == final_subclauses(subclauses, AllToks(all_deps))
       IN IF {} \in final
          THEN \* line 255: token[0] of the empty tuple
               /\ error' = "IndexError"
               /\ pc' = "raised"
               /\ UNCHANGED spans
          ELSE /\ \E pick \in [final -> UNION {SortTokens(sp) : sp \in final}] :
                     /\ \A sp \in final : pick[sp] \in SortTokens(sp)
                     /\ spans' \in SortedOrders({pick[sp] : sp \in final},
                                               [o \in {pick[sp] : sp \in final} |-> SpanKey(o)])
               /\ pc' = "ordered"
               /\ UNCHANGED error
    /\ UNCHANGED <<doc, str_sentence, mark, final_punc, all_deps, subclauses, upd,
                   result, done, trimVars>>

\* lines 257-266, for SubclauseGenerator("en")
Assemble ==
    /\ pc = "ordered"
    /\ LET out == [k \in 1..Len(spans) |->
                      AssembleSpan(spans[k], final_punc, conj_and_punc_list("en"))]
       IN IF \E k \in 1..Len(spans) : out[k].err
          THEN /\ error' = "IndexError"
               /\ pc' = "raised"
               /\ UNCHANGED upd
          ELSE /\ upd' = [k \in 1..Len(spans) |-> out[k].s]
               /\ pc' = "assembled"
               /\ UNCHANGED error
    /\ UNCHANGED <<doc, str_sentence, mark, final_punc, all_deps, subclauses, spans,
                   result, done, trimVars>>

\* lines 142-153
Finish ==
    /\ pc = "assembled"
    /\ result' = [k \in 1..Len(upd) |-> FinishSubclause(upd[k], mark)]
    /\ pc' = "returned"
    /\ UNCHANGED <<doc, str_sentence, mark, final_punc, all_deps, subclauses, spans,
                   upd, error, done, trimVars>>

Next == Tokenize \/ Resolve \/ Order \/ Assemble \/ Finish

Spec == Init /\ [][Next]_vars

(***************************************************************************)
(* The resolver loop of lines 239-243 with the closures taken in any       *)
(* order, followed by the ordering of lines 244-255.  The sentence is not  *)
(* empty, so line 233 has passed.  An entry of the mapping is read and written only by    *)
(* the iteration for its own token, so the order of the tokens inside one  *)
(* closure cannot show; the order of the closures is left open.            *)
(***************************************************************************)
TreeLexicon ==
    { [text |-> s_it, tag |-> "PRP", dep |-> "conj"],
      [text |-> s_was, tag |-> "VBD", dep |-> "conj"],
      [text |-> s_and, tag |-> "CC", dep |-> "cc"] }

InitResolve ==
    /\ \E n \in 1..MaxTokens : \E lex \in [1..n -> TreeLexicon] : \E heads \in Forests(n) :
           doc = MakeDoc(n, lex, heads)
    /\ pc = "parsing"
    /\ str_sentence = SqueezeBlanks(Join([k \in 1..Len(doc) |-> doc[k].text]))
    /\ mark = final_punc_mark(Join([k \in 1..Len(doc) |-> doc[k].text]))
    /\ final_punc = sentence_final_punc(Strip(str_sentence))
    /\ all_deps = <<>> /\ subclauses = <<>>
    /\ spans = <<>> /\ upd = <<>> /\ result = <<>> /\ error = ""
    /\ done = {}
    /\ NoTrim

\* lines 236-237
GetAllDeps ==
    /\ pc = "parsing"
    /\ all_deps' = get_all_deps(doc)
    /\ subclauses' = EmptySubclauses(doc)
    /\ pc' = "resolving"
    /\ UNCHANGED <<doc, str_sentence, mark, final_punc, spans, upd, result, error,
                   done, trimVars>>

\* lines 239-243, the iteration for the closure of root r
ResolveOne ==
    /\ pc = "resolving"
    /\ \E r \in Positions \ done :
          /\ subclauses' = UpdateWith(subclauses, all_deps[r + 1])
          /\ done' = done \cup {r}
          /\ pc' = IF done \cup {r} = Positions THEN "resolved" ELSE "resolving"
    /\ UNCHANGED <<doc, str_sentence, mark, final_punc, all_deps, spans, upd, result,
                   error, trimVars>>

NextResolve == GetAllDeps \/ ResolveOne \/ Order

SpecResolve == InitResolve /\ [][NextResolve]_vars

(***************************************************************************)
(* remove_trailing_conjs_and_puncs on its own, one loop pass per step,     *)
(* applied a second time to its own result.                                *)
(***************************************************************************)
TrimTokens == {s_it, s_and, s_dot}

TrimInputs == UNION {[1..n -> TrimTokens] : n \in 0..MaxTrimLen}

NoPipe == /\ doc = <<>> /\ pc = "idle" /\ str_sentence = <<>> /\ mark = <<>>
          /\ final_punc = <<>> /\ all_deps = <<>> /\ subclauses = <<>>
          /\ spans = <<>> /\ upd = <<>> /\ result = <<>> /\ error = ""
          /\ done = {}

InitTrim ==
    /\ NoPipe
    /\ tin \in TrimInputs
    /\ tL \in SUBSET TrimTokens
    /\ ts = tin
    /\ tpc = "call"
    /\ tpasses = 0
    /\ tfirst = <<>>

\* lines 309-310
TrimCall ==
    /\ tpc = "call"
    /\ tpc' = IF Len(ts) <= 1 THEN "done" ELSE "loop"
    /\ UNCHANGED <<pipeVars, done, tin, tL, ts, tpasses, tfirst>>

\* lines 311-320: one pass of the loop
TrimStep ==
    /\ tpc = "loop"
    /\ LET p == TrimPass(ts, tL)
       IN /\ ts' = p.s
          /\ tpc' = IF p.err THEN "raised" ELSE IF TrimBreaks(p) THEN "done" ELSE "loop"
          /\ tpasses' = tpasses + 1
    /\ UNCHANGED <<pipeVars, done, tin, tL, tfirst>>

\* the result is handed to the function again
TrimAgain ==
    /\ tpc = "done"
    /\ tfirst = <<>>
    /\ tfirst' = <<ts>>
    /\ tpasses' = 0
    /\ tpc' = "call"
    /\ UNCHANGED <<pipeVars, done, tin, tL, ts>>

NextTrim == TrimCall \/ TrimStep \/ TrimAgain

SpecTrim == InitTrim /\ [][NextTrim]_vars

(***************************************************************************)
(* Reference notions, stated on the tree and not on the code's walk.       *)
(***************************************************************************)
HeadOf(i) == doc[i + 1].head

\* the edge into token i opens a new subclause
BoundaryChild(i) ==
    /\ HeadOf(i) # i
    /\ Lower(doc[i + 1].dep) \in {"conj", "ccomp"}
    /\ Lower(doc[i + 1].tag) \in {"verb", "vbd", "vbz", "vbg"}

\* d is r, or d lies below r and no token on the way from r (exclusive) down to
\* d (inclusive) is a boundary child
RECURSIVE ClearPath(_, _, _)
ClearPath(r, d, fuel) ==
    IF d = r THEN TRUE
    ELSE IF HeadOf(d) = d \/ fuel = 0 THEN FALSE
    ELSE ~BoundaryChild(d) /\ ClearPath(r, HeadOf(d), fuel - 1)

ClauseOf(r) == {Tagged(doc, d) : d \in {x \in Positions : ClearPath(r, x, Len(doc))}}

\* the topmost ancestor of t (t included) reached without crossing a boundary edge
RECURSIVE TopOf(_, _)
TopOf(t, fuel) ==
    IF HeadOf(t) = t \/ BoundaryChild(t) \/ fuel = 0 THEN t
    ELSE TopOf(HeadOf(t), fuel - 1)

AllTagged == {Tagged(doc, i) : i \in Positions}
DistinctSpans == final_subclauses(subclauses, AllToks(all_deps))
Resolved == pc \in {"resolved", "ordered"}

(***************************************************************************)
(* C1: once every closure has been processed, the distinct values of the   *)
(* token-to-largest-closure mapping partition the token positions: every   *)
(* position 0..n-1 lies in exactly one span, the spans hold tokens of the  *)
(* sentence only, and the ordered list holds exactly these spans.          *)
(***************************************************************************)
C1_SpansPartition ==
    Resolved =>
        /\ \A i \in Positions :
              Cardinality({sp \in DistinctSpans : \E t \in sp : IndexOf(t) = i}) = 1
        /\ \A sp \in DistinctSpans : sp \subseteq AllTagged
        /\ pc = "ordered" =>
              /\ {Range(spans[k]) : k \in 1..Len(spans)} = DistinctSpans
              /\ Len(spans) = Cardinality(DistinctSpans)

C1_Witness ==
    /\ pc = "ordered"
    /\ Len(spans) >= 2
    /\ \E k \in 1..Len(spans) : Len(spans[k]) >= 2

(***************************************************************************)
(* C2: in the span list before index stripping, the tokens of each span    *)
(* are in strictly ascending position and the first-token positions of the *)
(* spans are strictly increasing along the list.                           *)
(***************************************************************************)
C2_OrderPreserved ==
    pc = "ordered" =>
        /\ \A k \in 1..Len(spans) : \A a, b \in 1..Len(spans[k]) :
              a < b => IndexOf(spans[k][a]) < IndexOf(spans[k][b])
        /\ \A k \in 1..(Len(spans) - 1) : SpanKey(spans[k]) < SpanKey(spans[k + 1])

\* two spans that interleave: the first holds positions on both sides of the second
C2_Witness ==
    /\ pc = "ordered"
    /\ Len(spans) >= 2
    /\ Len(spans[1]) >= 2
    /\ IndexOf(spans[1][1]) < SpanKey(spans[2])
    /\ SpanKey(spans[2]) < IndexOf(Last(spans[1]))

(***************************************************************************)
(* C8: whatever the order in which the closures are processed, the span    *)
(* assigned to a token is the closure rooted at its topmost ancestor       *)
(* reached without crossing a boundary edge; and two closures that share a *)
(* token and have the same size are the same set.                          *)
(***************************************************************************)
C8_LargestIsTopmost ==
    /\ Resolved =>
          \A t \in Positions : subclauses[Tagged(doc, t)] = all_deps[TopOf(t, Len(doc)) + 1]
    /\ pc # "parsing" => \A r1, r2 \in Positions :
          (/\ all_deps[r1 + 1] \cap all_deps[r2 + 1] # {}
           /\ Cardinality(all_deps[r1 + 1]) = Cardinality(all_deps[r2 + 1]))
          => all_deps[r1 + 1] = all_deps[r2 + 1]

\* a token below its clause head, in a sentence with a second subclause
C8_Witness ==
    /\ pc = "resolved"
    /\ \E t \in Positions :
          /\ TopOf(t, Len(doc)) # t
          /\ subclauses[Tagged(doc, t)] # all_deps[t + 1]
    /\ \E b \in Positions : BoundaryChild(b)

(***************************************************************************)
(* C9: get_children_recurs(r, 0) is the set of tokens d with d = r, or d   *)
(* below r with no boundary child on the way from r (exclusive) to d       *)
(* (inclusive); it contains r and only tokens of the sentence.             *)
(***************************************************************************)
C9_ClosureIsClause ==
    pc # "parsing" => \A r \in Positions :
        /\ all_deps[r + 1] = ClauseOf(r)
        /\ Tagged(doc, r) \in all_deps[r + 1]
        /\ all_deps[r + 1] \subseteq AllTagged

\* r has a boundary child c with a child g of its own: c and g are outside the
\* closure of r, and c, a boundary child, is in its own closure together with g
C9_Witness ==
    pc = "resolving" /\ \E r, c, g \in Positions :
        /\ HeadOf(c) = r /\ c # r /\ BoundaryChild(c)
        /\ HeadOf(g) = c /\ g # c /\ ~BoundaryChild(g)
        /\ Tagged(doc, c) \notin all_deps[r + 1]
        /\ Tagged(doc, g) \notin all_deps[r + 1]
        /\ {Tagged(doc, c), Tagged(doc, g)} \subseteq all_deps[c + 1]

(***************************************************************************)
(* Boundary trimming on its own.                                           *)
(***************************************************************************)
\* the list the running application of the function was given
TrimInput == IF tfirst = <<>> THEN tin ELSE tfirst[1]

\* x is a contiguous part of the list y
IsSublist(x, y) == \E k \in 0..(Len(y) - Len(x)) : SubSeq(y, k + 1, k + Len(x)) = x

(***************************************************************************)
(* C5: boundary trimming is idempotent: applied to its own result it       *)
(* returns that result unchanged.                                          *)
(***************************************************************************)
C5_TrimIdempotent ==
    (tpc = "done" /\ tfirst # <<>>) => ts = tfirst[1]

\* the first application removed tokens at both ends and left two or more
C5_Witness ==
    /\ tpc = "done" /\ tfirst # <<>>
    /\ Len(tfirst[1]) >= 2
    /\ Len(tin) >= Len(tfirst[1]) + 2
    /\ tin[1] \in tL /\ Last(tin) \in tL

(***************************************************************************)
(* C10: boundary trimming never reads outside the list, every pass that    *)
(* does not end the loop shortens the list (so the loop ends), and the     *)
(* result is a contiguous part of the input whose first and last tokens    *)
(* are no boundary tokens whenever it has two or more tokens.              *)
(***************************************************************************)
C10_TrimSafe ==
    /\ tpc # "raised"
    /\ tpc = "loop" => (Len(ts) >= 2 /\ Len(ts) + tpasses <= Len(TrimInput))
    /\ tpc = "done" =>
          /\ IsSublist(ts, TrimInput)
          /\ Len(ts) >= 2 => (ts[1] \notin tL /\ Last(ts) \notin tL)

\* a list of boundary tokens only, trimmed in more than one pass
C10_Witness ==
    /\ tpc = "done" /\ tfirst = <<>>
    /\ tpasses >= 2
    /\ Len(tin) >= 4
    /\ Range(tin) \subseteq tL

(***************************************************************************)
(* C4: for a sentence of one token or more, every subclause returned by    *)
(* convert_to_subclauses is non-empty and ends with the final punctuation  *)
(* mark of the input: its last character when that is one of . ? !, and    *)
(* "." otherwise; there is one returned subclause per assembled span.      *)
(***************************************************************************)
InputMark ==
    LET c == Last(doc[Len(doc)].text)
    IN IF c \in {".", "?", "!"} THEN <<c>> ELSE <<".">>

C4_FinalMarkAppended ==
    (pc = "returned" /\ Len(doc) >= 1) =>
        /\ Len(result) = Len(upd) /\ Len(result) >= 1
        /\ \A k \in 1..Len(result) :
              /\ result[k] # <<>>
              /\ Last(result[k]) = InputMark

\* two subclauses, both ending in the "!" the sentence ends with
C4_Witness ==
    /\ pc = "returned"
    /\ Len(result) >= 2
    /\ InputMark = <<"!">>
    /\ \A k \in 1..Len(result) : Len(result[k]) >= 2

(***************************************************************************)
(* C3 (as claimed): every non-empty subclause returned by                  *)
(* get_all_subclauses_of_sent ends with one of the tokens . ? ! ; :        *)
(***************************************************************************)
C3_EndsWithTerminator ==
    pc = "assembled" =>
        \A k \in 1..Len(upd) :
            upd[k] # <<>> => Last(upd[k]) \in {<<".">>, <<"?">>, <<"!">>, <<";">>, <<":">>}

(***************************************************************************)
(* C6 (as claimed): an empty sentence raises no error and yields the empty *)
(* list of subclauses.                                                     *)
(***************************************************************************)
C6_EmptySentenceReturnsEmpty ==
    (Len(doc) = 0 /\ pc \notin {"call", "tokenized"}) =>
        /\ error = ""
        /\ pc \in {"assembled", "returned"}
        /\ upd = <<>> /\ result = <<>>

(***************************************************************************)
(* C7 (as claimed): every subclause returned by get_all_subclauses_of_sent *)
(* holds at least one token.                                               *)
(***************************************************************************)
C7_SubclausesNonEmpty ==
    pc = "assembled" => \A k \in 1..Len(upd) : upd[k] # <<>>

====
